---- MODULE Spec2Model ----
(***************************************************************************)
(* The action handlers of kwsk (restapi/configure_kwsk_actions.go): the    *)
(* OpenWhisk-style action API realised as one Knative Configuration and    *)
(* one Knative Route per action, and the init/run invocation bridge.       *)
(*                                                                         *)
(* Every HTTP request is served by its own goroutine; the handlers share   *)
(* no memory, only the platform (the Knative API server).  A handler is    *)
(* modelled as a process whose steps are its calls to the platform and to  *)
(* the action host; each call is atomic, the code between two calls is     *)
(* folded into the step of the call before it.                             *)
(*                                                                         *)
(* Action names are sequences of one-character strings, because the name   *)
(* normaliser works character by character; every other Go string is an    *)
(* opaque TLA+ string.                                                     *)
(***************************************************************************)
EXTENDS Integers, Sequences, FiniteSets, TLC

\* ---------------------------------------------------------------- bounds
MaxFaults == 1          \* platform calls that fail for an outside reason
MaxRequests == 3        \* requests admitted when handlers work side by side
MaxStrLen == 3          \* length of the strings a function is evaluated on

\* ---------------------------------------------------------------- inputs
Procs == {"h1", "h2"}

Names == { <<"A", " ", "b">>, <<"a", "-", "b">>, <<"c">> }

Namespaces == {"_", "default", "dev"}

\* Actions are created in the default namespace only, under either of its
\* names; they are read, deleted and invoked in every namespace.
UpdateNamespaces == {"_", "default"}

\* params.Action: exec is a pointer, modelled as a sequence of length 0 or 1.
ActionBodies ==
  { [version |-> "0.0.1", exec |-> << >>],
    [version |-> "0.0.2", exec |-> << [kind |-> "nodejs", code |-> "f1", image |-> ""] >>],
    [version |-> "0.0.3", exec |-> << [kind |-> "blackbox", code |-> "f2", image |-> "img"] >>] }

NoBody == [version |-> "", exec |-> << >>]

\* kwskFlags.Istio, as given on the command line (possibly not at all).
IstioFlags == {"", "gateway:80"}

\* ------------------------------------------------------ name normalisation
ToLowerChar(c) ==
  CASE c = "A" -> "a"
    [] c = "B" -> "b"
    [] c = "C" -> "c"
    [] OTHER   -> c

ToLower(s) == [i \in DOMAIN s |-> ToLowerChar(s[i])]

\* strings.Replace(s, old, new, -1) for one-character old and new
Replace(s, old, new) == [i \in DOMAIN s |-> IF s[i] = old THEN new ELSE s[i]]

\* Mutant: the name is lower-cased and its spaces are left.
sanitizeActionName_spaces(name) == ToLower(name)

sanitizeActionName(name) == Replace(ToLower(name), " ", "-")

\* Mutant: every namespace resolves to the default one.
namespaceOrDefault_always(namespace) == "default"

namespaceOrDefault(namespace) == IF namespace = "_" THEN "default" ELSE namespace

\* ------------------------------------------------------------ the platform
ErrNil           == "nil"
ErrNotFound      == "NotFound"
ErrAlreadyExists == "AlreadyExists"
ErrInternal      == "InternalError"

IsNotFound(err) == err = ErrNotFound

\* A resource collection is a function from <<namespace, name>> to the object.
\* Mutant: Create replaces an object that exists instead of refusing.
CreateErr_upsert(store, key, fault) == IF fault THEN ErrInternal ELSE ErrNil

CreateErr(store, key, fault) ==
  IF fault THEN ErrInternal
  ELSE IF key \in DOMAIN store THEN ErrAlreadyExists ELSE ErrNil

LookupErr(store, key, fault) ==
  IF fault THEN ErrInternal
  ELSE IF key \in DOMAIN store THEN ErrNil ELSE ErrNotFound

Put(store, key, obj) ==
  [k \in DOMAIN store \cup {key} |-> IF k = key THEN obj ELSE store[k]]

Remove(store, key) == [k \in DOMAIN store \ {key} |-> store[k]]

\* Reading a key of a Go map: the zero value when the key is absent.
MapGet(m, k, zero) == IF k \in DOMAIN m THEN m[k] ELSE zero

EmptyStore == [k \in {} |-> 0]

\* Route.Status.Domain is filled in by the platform, one domain per route.
RouteDomain(key) == <<"domain", key[1], key[2]>>

\* ------------------------------------------------------------ action codec
DefaultImage == "openwhisk/action-nodejs-v8"

\* The annotations updateActionFunc writes.
actionAnnotations(name, action) ==
  LET base == [k \in {"kwsk_action_name", "kwsk_action_version"} |->
                 IF k = "kwsk_action_name" THEN name ELSE action.version]
  IN IF action.exec # << >>
       THEN [k \in DOMAIN base \cup {"kwsk_action_kind", "kwsk_action_code"} |->
               IF k = "kwsk_action_kind" THEN action.exec[1].kind
               ELSE IF k = "kwsk_action_code" THEN action.exec[1].code
               ELSE base[k]]
       ELSE base

\* Mutant: the container image is the default one whatever the Action says.
actionImage_default(action) == DefaultImage

\* The container image updateActionFunc chooses.
actionImage(action) ==
  LET image == IF action.exec # << >> THEN action.exec[1].image ELSE ""
  IN IF image = "" THEN DefaultImage ELSE image

\* The v1alpha1.Configuration updateActionFunc builds.
newConfiguration(name, configName, namespace, action) ==
  [name        |-> configName,
   namespace   |-> namespace,
   annotations |-> actionAnnotations(name, action),
   image       |-> actionImage(action)]

\* The v1alpha1.Route updateActionFunc builds.
newRoute(configName, namespace) ==
  [name      |-> configName,
   namespace |-> namespace,
   traffic   |-> << [configurationName |-> configName, percent |-> 100] >>,
   domain    |-> RouteDomain(<<namespace, configName>>)]

configToAction(config) ==
  [kind      |-> "action",
   name      |-> MapGet(config.annotations, "kwsk_action_name", << >>),
   namespace |-> config.namespace,
   version   |-> MapGet(config.annotations, "kwsk_action_version", ""),
   exec      |-> [image |-> config.image,
                  kind  |-> MapGet(config.annotations, "kwsk_action_kind", ""),
                  code  |-> MapGet(config.annotations, "kwsk_action_code", "")]]

\* --------------------------------------------------------------- responses
StatusOK        == 200
StatusForbidden == 403
StatusNotFound  == 404
StatusInternal  == 500
NoStatus        == 0      \* the handler returned no responder (it panicked)

NoPayload == [kind |-> "none"]

ErrorMessage(msg) == [kind |-> "error", error |-> msg]

Response(status, payload) == [status |-> status, payload |-> payload]

NoResponse == Response(NoStatus, NoPayload)

\* Mutant: every error is answered with InternalServerError.
errorStatus_internal(err) == IF err = ErrNil THEN StatusOK ELSE StatusInternal

\* if errors.IsNotFound(err) { NotFound } else { InternalServerError }
errorStatus(err) == IF IsNotFound(err) THEN StatusNotFound ELSE StatusInternal

\* --------------------------------------------------- resource names in use
\* The <<namespace, name>> each handler hands to the platform.
\* Mutant: deleteActionFunc addresses the resources by the name as it came.
deleteKey_raw(name, namespace) == <<namespaceOrDefault(namespace), name>>

deleteKey(name, namespace) ==
  <<namespaceOrDefault(namespace), sanitizeActionName(name)>>

updateKey(name, namespace) ==
  <<namespaceOrDefault(namespace), sanitizeActionName(name)>>

\* Mutant: getActionByName looks the name up as it came.
getActionByNameKey_raw(name, namespace) == <<namespaceOrDefault(namespace), name>>

getActionByNameKey(name, namespace) ==
  <<namespaceOrDefault(namespace), sanitizeActionName(name)>>

\* invokeActionFunc passes params.ActionName as it came.
invokeKey(name, namespace) == <<namespaceOrDefault(namespace), name>>

\* ------------------------------------------------------------- action host
\* What actionRequest returns: (status, body, err).  Bodies are sequences of
\* characters.  A failed request returns (500, nil, err).
TransportError == [status |-> 500, body |-> << >>, err |-> TRUE]

HostReply(status, body) == [status |-> status, body |-> body, err |-> FALSE]

InitReplies ==
  { TransportError,
    HostReply(200, <<"{", "}">>),
    HostReply(403, <<"x">>),
    HostReply(502, <<"x">>) }

RunReplies ==
  { TransportError,
    HostReply(200, <<"{", "}">>),
    HostReply(200, <<"1">>),
    HostReply(200, <<"x">>),
    HostReply(200, << >>),
    HostReply(403, <<"{", "}">>),
    HostReply(502, <<"x">>) }

\* json.Unmarshal(resBody, &resultJson) on the bodies above: an object, a
\* number, or a syntax error.
IsDigits(body) == body # << >> /\ \A i \in DOMAIN body : body[i] \in {"0", "1"}

jsonUnmarshal(body) ==
  IF body = <<"{", "}">> THEN [err |-> FALSE, value |-> [json |-> "object", text |-> body]]
  ELSE IF IsDigits(body) THEN [err |-> FALSE, value |-> [json |-> "number", text |-> body]]
  ELSE [err |-> TRUE, value |-> [json |-> "null", text |-> << >>]]

\* params.Payload of an invocation: absent, or some parameters.
Payloads == { << >>, <<"args">> }

\* getActionParameters: an empty map when no payload came with the request.
getActionParameters(payload) == IF payload = << >> THEN <<"emptymap">> ELSE payload

\* Mutant: initAction takes 403 for an error as well.
initFails_403(resStatus) == resStatus # StatusOK

\* initAction: 403 is ignored, any other status but 200 is an error.
initFails(resStatus) == resStatus # StatusForbidden /\ resStatus # StatusOK

\* Mutant: runAction takes only the 5xx statuses for errors.
runFails_5xx(resStatus) == resStatus >= 500

\* runAction: any status but 200 is an error.
runFails(resStatus) == resStatus # StatusOK

\* Mutant: the flag is never checked.
istioMissing_unchecked(istioHostAndPort) == FALSE

\* invokeActionFunc: if istioHostAndPort == "" { panic(...) }
istioMissing(istioHostAndPort) == istioHostAndPort = ""

newActivation(name, namespace, resultJson) ==
  [kind         |-> "activation",
   activationId |-> "dummyactivationid",
   name         |-> name,
   namespace    |-> namespace,
   response     |-> [result |-> resultJson, success |-> TRUE],
   logs         |-> << >>]

\* ------------------------------------------------------------------- state
VARIABLES
  configs,    \* the platform's Configurations, by <<namespace, name>>
  routes,     \* the platform's Routes, by <<namespace, name>>
  istio,      \* kwskFlags.Istio
  pc,         \* where each handler stands
  req,        \* the request each handler serves
  loc,        \* the handler's local variables (route, config of an invocation)
  resp,       \* the responder the handler returned
  wire,       \* the exchanges of the current invocation with the action host
  obs,        \* per request: the platform as it was when the request came,
              \* and the platform calls the handler made, with their errors
  created,    \* per action: what the last Create answered with 200, and
              \* whether a later Create was refused; forgotten on a Delete
  removed,    \* per action: the status of the last Delete of an action that
              \* existed; forgotten on a Create
  nfaults,    \* outside failures of platform calls so far
  nreq,       \* requests admitted while others may be at work
  calc        \* one evaluation of a function of the program: argument, result

vars == <<configs, routes, istio, pc, req, loc, resp, wire, obs, created, removed,
          nfaults, nreq, calc>>

NoCalc == [at |-> "none", arg |-> << >>, config |-> << >>, out |-> << >>]

NoRequest == [op |-> "none", name |-> << >>, namespace |-> "", action |-> NoBody, payload |-> << >>]

Requests ==
       [op : {"update"}, name : Names, namespace : UpdateNamespaces, action : ActionBodies, payload : {<< >>}]
  \cup [op : {"delete", "get"}, name : Names, namespace : Namespaces, action : {NoBody}, payload : {<< >>}]
  \cup [op : {"list"}, name : {<< >>}, namespace : Namespaces, action : {NoBody}, payload : {<< >>}]
  \cup [op : {"invoke"}, name : Names, namespace : Namespaces, action : {NoBody}, payload : Payloads]

NoLocals == [actionHost |-> << >>, code |-> "", configName |-> << >>]

NoObs == [pre |-> [configs |-> EmptyStore, routes |-> EmptyStore], calls |-> << >>]

\* The action a request is about: the resolved namespace and normalised name.
ActionKey(r) == <<namespaceOrDefault(r.namespace), sanitizeActionName(r.name)>>

\* The first step of each handler.
Entry(op) ==
  CASE op = "delete" -> "deleteConfiguration"
    [] op = "update" -> "createConfiguration"
    [] op = "get"    -> "getConfiguration"
    [] op = "list"   -> "listConfigurations"
    [] op = "invoke" -> "getRoute"

InitProgram ==
  /\ configs = EmptyStore
  /\ routes = EmptyStore
  /\ istio \in IstioFlags
  /\ pc = [p \in Procs |-> "idle"]
  /\ req = [p \in Procs |-> NoRequest]
  /\ loc = [p \in Procs |-> NoLocals]
  /\ resp = [p \in Procs |-> NoResponse]
  /\ wire = [p \in Procs |-> << >>]
  /\ obs = [p \in Procs |-> NoObs]
  /\ created = EmptyStore
  /\ removed = EmptyStore
  /\ nfaults = 0
  /\ nreq = 0

Init ==
  /\ InitProgram
  /\ calc = NoCalc

\* A platform call may fail for a reason of the platform's own (the API
\* server is unreachable, refuses the object, ...).
Faults == IF nfaults < MaxFaults THEN {FALSE, TRUE} ELSE {FALSE}

\* The handler p made the platform call `call`, which returned err.
Called(p, call, err, fault) ==
  /\ nfaults' = IF fault THEN nfaults + 1 ELSE nfaults
  /\ obs' = [obs EXCEPT ![p].calls = Append(@, [call |-> call, err |-> err])]

\* The handler returns the responder.
Respond(p, status, payload) ==
  /\ resp' = [resp EXCEPT ![p] = Response(status, payload)]
  /\ pc' = [pc EXCEPT ![p] = "done"]

Goto(p, label) ==
  /\ pc' = [pc EXCEPT ![p] = label]
  /\ UNCHANGED resp

\* ---------------------------------------------------------------- requests
\* The server accepts a request and starts its handler; here requests are
\* served one after the other.
Start(p) ==
  /\ \A q \in Procs : pc[q] = "idle"
  /\ \E r \in Requests :
       /\ req' = [req EXCEPT ![p] = r]
       /\ pc' = [pc EXCEPT ![p] = Entry(r.op)]
       /\ obs' = [obs EXCEPT ![p] = [pre |-> [configs |-> configs, routes |-> routes],
                                     calls |-> << >>]]
       /\ created' = IF r.op = "delete" THEN Remove(created, ActionKey(r)) ELSE created
       /\ removed' = IF r.op = "update" THEN Remove(removed, ActionKey(r)) ELSE removed
  /\ UNCHANGED <<configs, routes, istio, nreq, calc, loc, resp, wire, nfaults>>

\* The responder is written to the client (or, after a panic, nothing is).
Return(p) ==
  /\ pc[p] \in {"done", "panic"}
  /\ LET key == ActionKey(req[p]) IN
     /\ created' =
          IF req[p].op = "update" /\ resp[p].status = StatusOK
            THEN Put(created, key, [action |-> resp[p].payload, refused |-> FALSE])
          ELSE IF req[p].op = "update" /\ key \in DOMAIN created
            THEN [created EXCEPT ![key].refused = TRUE]
          ELSE created
     /\ removed' =
          IF req[p].op = "delete" /\ key \in DOMAIN obs[p].pre.configs
            THEN Put(removed, key, resp[p].status)
          ELSE removed
  /\ pc' = [pc EXCEPT ![p] = "idle"]
  /\ req' = [req EXCEPT ![p] = NoRequest]
  /\ loc' = [loc EXCEPT ![p] = NoLocals]
  /\ resp' = [resp EXCEPT ![p] = NoResponse]
  /\ wire' = [wire EXCEPT ![p] = << >>]
  /\ obs' = [obs EXCEPT ![p] = NoObs]
  /\ UNCHANGED <<configs, routes, istio, nreq, calc, nfaults>>

\* Requests served side by side: net/http runs every handler on a goroutine
\* of its own, so a request may come while another is being served.  Each
\* platform call and each exchange with the action host is one step.
ConcNames == {<<"A", " ", "b">>, <<"a", "-", "b">>}

ConcRequests ==
  {r \in Requests :
     /\ r.op \in {"update", "delete", "invoke"}
     /\ r.name \in ConcNames
     /\ r.namespace = "_"
     /\ r.action.version # "0.0.2"
     /\ r.payload = << >>}

ConcStart(p) ==
  /\ pc[p] = "idle"
  /\ nreq < MaxRequests
  /\ \E r \in ConcRequests :
       /\ req' = [req EXCEPT ![p] = r]
       /\ pc' = [pc EXCEPT ![p] = Entry(r.op)]
       /\ obs' = [obs EXCEPT ![p] = [pre |-> [configs |-> configs, routes |-> routes],
                                     calls |-> << >>]]
       /\ created' = IF r.op = "delete" THEN Remove(created, ActionKey(r)) ELSE created
       /\ removed' = IF r.op = "update" THEN Remove(removed, ActionKey(r)) ELSE removed
  /\ nreq' = nreq + 1
  /\ UNCHANGED <<configs, routes, istio, calc, loc, resp, wire, nfaults>>

\* ------------------------------------------------------- deleteActionFunc
\* Mutant: the handler goes on to the Route whatever became of the
\* Configuration.
deleteConfiguration_goesOn(p) ==
  /\ pc[p] = "deleteConfiguration"
  /\ \E fault \in Faults :
       LET key == deleteKey(req[p].name, req[p].namespace)
           err == LookupErr(configs, key, fault)
       IN /\ Called(p, "Configurations.Delete", err, fault)
          /\ configs' = IF err = ErrNil THEN Remove(configs, key) ELSE configs
          /\ Goto(p, "deleteRoute")
  /\ UNCHANGED <<routes, istio, nreq, calc, req, loc, wire, created, removed>>

\* Configurations(namespace).Delete(configName) and the answer to its error.
deleteConfiguration(p) ==
  /\ pc[p] = "deleteConfiguration"
  /\ \E fault \in Faults :
       LET key == deleteKey(req[p].name, req[p].namespace)
           err == LookupErr(configs, key, fault)
       IN /\ Called(p, "Configurations.Delete", err, fault)
          /\ IF err # ErrNil
               THEN /\ Respond(p, errorStatus(err), ErrorMessage(err))
                    /\ UNCHANGED configs
               ELSE /\ configs' = Remove(configs, key)
                    /\ Goto(p, "deleteRoute")
  /\ UNCHANGED <<routes, istio, nreq, calc, req, loc, wire, created, removed>>

\* Mutant: the handler answers 200 without deleting the Route.
deleteRoute_skipped(p) ==
  /\ pc[p] = "deleteRoute"
  /\ Respond(p, StatusOK, NoPayload)
  /\ UNCHANGED <<configs, routes, istio, nreq, calc, req, loc, wire, obs, created, removed, nfaults>>

\* Routes(namespace).Delete(configName) and the answer to its error.
deleteRoute(p) ==
  /\ pc[p] = "deleteRoute"
  /\ \E fault \in Faults :
       LET key == deleteKey(req[p].name, req[p].namespace)
           err == LookupErr(routes, key, fault)
       IN /\ Called(p, "Routes.Delete", err, fault)
          /\ IF err # ErrNil
               THEN /\ Respond(p, errorStatus(err), ErrorMessage(err))
                    /\ UNCHANGED routes
               ELSE /\ routes' = Remove(routes, key)
                    /\ Respond(p, StatusOK, NoPayload)
  /\ UNCHANGED <<configs, istio, nreq, calc, req, loc, wire, created, removed>>

deleteActionFunc(p) == deleteConfiguration(p) \/ deleteRoute(p)

\* The handler as a function of the platform, when no call fails for an
\* outside reason: one step of a run that stands at `at`.
DeleteStep(cs, rs, key, run) ==
  IF run.at = "deleteConfiguration"
    THEN LET err == LookupErr(cs, key, FALSE)
         IN IF err # ErrNil
              THEN [configs |-> cs, routes |-> rs,
                    run |-> [at |-> "done", status |-> errorStatus(err)]]
              ELSE [configs |-> Remove(cs, key), routes |-> rs,
                    run |-> [at |-> "deleteRoute", status |-> NoStatus]]
    ELSE LET err == LookupErr(rs, key, FALSE)
         IN IF err # ErrNil
              THEN [configs |-> cs, routes |-> rs,
                    run |-> [at |-> "done", status |-> errorStatus(err)]]
              ELSE [configs |-> cs, routes |-> Remove(rs, key),
                    run |-> [at |-> "done", status |-> StatusOK]]

NewDeleteRun == [at |-> "deleteConfiguration", status |-> NoStatus]

\* The pairs of statuses two runs of the handler on the same action can end
\* with, over all the orders in which their platform calls can fall.
RECURSIVE DeleteOutcomes(_, _, _, _, _)
DeleteOutcomes(cs, rs, key, run1, run2) ==
  IF run1.at = "done" /\ run2.at = "done"
    THEN {<<run1.status, run2.status>>}
    ELSE (IF run1.at # "done"
            THEN LET n == DeleteStep(cs, rs, key, run1)
                 IN DeleteOutcomes(n.configs, n.routes, key, n.run, run2)
            ELSE {})
         \cup
         (IF run2.at # "done"
            THEN LET n == DeleteStep(cs, rs, key, run2)
                 IN DeleteOutcomes(n.configs, n.routes, key, run1, n.run)
            ELSE {})

\* ------------------------------------------------------- updateActionFunc
\* Mutant: the error of Configurations(namespace).Create is dropped, as the
\* error of Routes(namespace).Create is.
createConfiguration_errDropped(p) ==
  /\ pc[p] = "createConfiguration"
  /\ \E fault \in Faults :
       LET key == updateKey(req[p].name, req[p].namespace)
           err == CreateErr(configs, key, fault)
       IN /\ Called(p, "Configurations.Create", err, fault)
          /\ configs' = IF err = ErrNil
                          THEN Put(configs, key,
                                   newConfiguration(req[p].name, key[2], key[1], req[p].action))
                        ELSE configs
          /\ Goto(p, "createRoute")
  /\ UNCHANGED <<routes, istio, nreq, calc, req, loc, wire, created, removed>>

\* The Configuration is built and Configurations(namespace).Create(config)
\* is called; an error ends the request.
createConfiguration(p) ==
  /\ pc[p] = "createConfiguration"
  /\ \E fault \in Faults :
       LET key == updateKey(req[p].name, req[p].namespace)
           err == CreateErr(configs, key, fault)
       IN /\ Called(p, "Configurations.Create", err, fault)
          /\ IF err # ErrNil
               THEN /\ Respond(p, StatusInternal, ErrorMessage(err))
                    /\ UNCHANGED configs
               ELSE /\ configs' = Put(configs, key,
                                      newConfiguration(req[p].name, key[2], key[1], req[p].action))
                    /\ Goto(p, "createRoute")
  /\ UNCHANGED <<routes, istio, nreq, calc, req, loc, wire, created, removed>>

\* Routes(namespace).Create(route); its error is overwritten by the next
\* statement before anything reads it.
createRoute(p) ==
  /\ pc[p] = "createRoute"
  /\ \E fault \in Faults :
       LET key == updateKey(req[p].name, req[p].namespace)
           err == CreateErr(routes, key, fault)
       IN /\ Called(p, "Routes.Create", err, fault)
          /\ routes' = IF err = ErrNil THEN Put(routes, key, newRoute(key[2], key[1]))
                       ELSE routes
          /\ Goto(p, "getUpdated")
  /\ UNCHANGED <<configs, istio, nreq, calc, req, loc, wire, created, removed>>

\* getActionByName(knativeClient, name, namespace), with the namespace
\* updateActionFunc resolved already.
getUpdated(p) ==
  /\ pc[p] = "getUpdated"
  /\ \E fault \in Faults :
       LET key == getActionByNameKey(req[p].name, namespaceOrDefault(req[p].namespace))
           err == LookupErr(configs, key, fault)
       IN /\ Called(p, "Configurations.Get", err, fault)
          /\ IF err # ErrNil
               THEN Respond(p, StatusInternal, ErrorMessage(err))
               ELSE Respond(p, StatusOK, configToAction(configs[key]))
  /\ UNCHANGED <<configs, routes, istio, nreq, calc, req, loc, wire, created, removed>>

updateActionFunc(p) == createConfiguration(p) \/ createRoute(p) \/ getUpdated(p)

\* ---------------------------------------------------- getActionByNameFunc
getActionByNameFunc(p) ==
  /\ pc[p] = "getConfiguration"
  /\ \E fault \in Faults :
       LET key == getActionByNameKey(req[p].name, req[p].namespace)
           err == LookupErr(configs, key, fault)
       IN /\ Called(p, "Configurations.Get", err, fault)
          /\ IF err # ErrNil
               THEN Respond(p, errorStatus(err), ErrorMessage(err))
               ELSE Respond(p, StatusOK, configToAction(configs[key]))
  /\ UNCHANGED <<configs, routes, istio, nreq, calc, req, loc, wire, created, removed>>

\* ------------------------------------------------------ getAllActionsFunc
RECURSIVE SetToSeq(_)
SetToSeq(S) ==
  IF S = {} THEN << >>
  ELSE LET x == CHOOSE x \in S : TRUE IN <<x>> \o SetToSeq(S \ {x})

\* configs.Items of Configurations(namespace).List
listItems(store, namespace) ==
  LET keys == SetToSeq({k \in DOMAIN store : k[1] = namespace})
  IN [i \in DOMAIN keys |-> store[keys[i]]]

getAllActionsFunc(p) ==
  /\ pc[p] = "listConfigurations"
  /\ \E fault \in Faults :
       LET items == listItems(configs, namespaceOrDefault(req[p].namespace))
           err   == IF fault THEN ErrInternal ELSE ErrNil
       IN /\ Called(p, "Configurations.List", err, fault)
          /\ IF err # ErrNil
               THEN Respond(p, StatusInternal, ErrorMessage(err))
               ELSE Respond(p, StatusOK,
                            [kind  |-> "actions",
                             items |-> [i \in DOMAIN items |-> configToAction(items[i])]])
  /\ UNCHANGED <<configs, routes, istio, nreq, calc, req, loc, wire, created, removed>>

\* ------------------------------------------------------- invokeActionFunc
\* Routes(namespace).Get(params.ActionName)
\* Mutant: the invocation goes on without the Route.
getRoute_errDropped(p) ==
  /\ pc[p] = "getRoute"
  /\ \E fault \in Faults :
       LET key == invokeKey(req[p].name, req[p].namespace)
           err == LookupErr(routes, key, fault)
       IN /\ Called(p, "Routes.Get", err, fault)
          /\ loc' = [loc EXCEPT ![p].actionHost =
                        IF err = ErrNil THEN routes[key].domain ELSE << >>]
          /\ Goto(p, "getConfig")
  /\ UNCHANGED <<configs, routes, istio, nreq, calc, req, wire, created, removed>>

getRoute(p) ==
  /\ pc[p] = "getRoute"
  /\ \E fault \in Faults :
       LET key == invokeKey(req[p].name, req[p].namespace)
           err == LookupErr(routes, key, fault)
       IN /\ Called(p, "Routes.Get", err, fault)
          /\ IF err # ErrNil
               THEN /\ Respond(p, errorStatus(err), ErrorMessage(err))
                    /\ UNCHANGED loc
               ELSE /\ loc' = [loc EXCEPT ![p].actionHost = routes[key].domain]
                    /\ Goto(p, "getConfig")
  /\ UNCHANGED <<configs, routes, istio, nreq, calc, req, wire, created, removed>>

\* Configurations(namespace).Get(params.ActionName), then the check of the
\* --istio flag, which panics.
getConfig(p) ==
  /\ pc[p] = "getConfig"
  /\ \E fault \in Faults :
       LET key == invokeKey(req[p].name, req[p].namespace)
           err == LookupErr(configs, key, fault)
       IN /\ Called(p, "Configurations.Get", err, fault)
          /\ IF err # ErrNil
               THEN /\ Respond(p, errorStatus(err), ErrorMessage(err))
                    /\ UNCHANGED loc
               ELSE /\ loc' = [loc EXCEPT
                                 ![p].code = MapGet(configs[key].annotations, "kwsk_action_code", ""),
                                 ![p].configName = configs[key].name]
                    /\ IF istioMissing(istio) THEN Goto(p, "panic") ELSE Goto(p, "initAction")
  /\ UNCHANGED <<configs, routes, istio, nreq, calc, req, wire, created, removed>>

\* One exchange with the action host, as actionRequest makes it.
Exchange(path, actionHost, body, reply) ==
  [path |-> path, host |-> actionHost, body |-> body, reply |-> reply]

initAction(p) ==
  /\ pc[p] = "initAction"
  /\ \E reply \in InitReplies :
       LET initBody == [main |-> "main", code |-> loc[p].code]
       IN /\ wire' = [wire EXCEPT ![p] =
                        Append(@, Exchange("init", loc[p].actionHost, initBody, reply))]
          /\ IF reply.err
               THEN Respond(p, StatusInternal, ErrorMessage("transport"))
             ELSE IF initFails(reply.status)
               THEN Respond(p, StatusInternal, ErrorMessage("Error initializating action"))
             ELSE Goto(p, "runAction")
  /\ UNCHANGED <<configs, routes, istio, nreq, calc, req, loc, obs, created, removed, nfaults>>

runAction(p) ==
  /\ pc[p] = "runAction"
  /\ \E reply \in RunReplies :
       LET runBody == [value |-> getActionParameters(req[p].payload)]
           parsed  == jsonUnmarshal(reply.body)
       IN /\ wire' = [wire EXCEPT ![p] =
                        Append(@, Exchange("run", loc[p].actionHost, runBody, reply))]
          /\ IF reply.err
               THEN Respond(p, StatusInternal, ErrorMessage("transport"))
             ELSE IF runFails(reply.status)
               THEN Respond(p, StatusInternal, ErrorMessage("Error invoking action"))
             ELSE IF parsed.err
               THEN Respond(p, StatusInternal,
                            ErrorMessage("Action invocation result was not valid JSON"))
             ELSE Respond(p, StatusOK,
                          newActivation(loc[p].configName,
                                        namespaceOrDefault(req[p].namespace),
                                        parsed.value))
  /\ UNCHANGED <<configs, routes, istio, nreq, calc, req, loc, obs, created, removed, nfaults>>

invokeActionFunc(p) == getRoute(p) \/ getConfig(p) \/ initAction(p) \/ runAction(p)

\* ------------------------------------------------------------ the program
\* The handlers, one request after the other: Start admits a request only
\* when no handler is at work.
Next ==
  \E p \in Procs :
    \/ Start(p)
    \/ deleteActionFunc(p)
    \/ updateActionFunc(p)
    \/ getActionByNameFunc(p)
    \/ getAllActionsFunc(p)
    \/ invokeActionFunc(p)
    \/ Return(p)

Spec == Init /\ [][Next]_vars

\* -------------------------------------------- the functions on their own
\* The characters names are made of: letters of both cases, the space, the
\* hyphen and a digit.
Alphabet == {"A", "C", "a", " ", "-", "1"}

Strings == UNION {[1..n -> Alphabet] : n \in 0..MaxStrLen}

\* models.Action as it comes with an update: exec absent, or with each of
\* its fields given or left empty.
CodecActions ==
  [version : {"", "0.0.1"},
   exec : {<< >>} \cup {<<e>> : e \in [kind : {"", "nodejs"}, code : {"", "f1"},
                                        image : {"", "img"}]}]

CodecInputs == [name : Names, namespace : {"_", "dev"}, action : CodecActions]

AnnotationKeys ==
  {"kwsk_action_name", "kwsk_action_version", "kwsk_action_kind", "kwsk_action_code"}

\* Configurations as the platform may hold them, with any of the annotations
\* present or absent.
CodecConfigurations ==
  {[name |-> <<"c">>, namespace |-> "default", image |-> DefaultImage,
    annotations |-> [k \in present |->
                       IF k = "kwsk_action_name" THEN <<"c">> ELSE "x"]] :
     present \in SUBSET AnnotationKeys}

CalcInputs ==
       [at : {"name"}, arg : Strings, config : {<< >>}, out : {<< >>}]
  \cup [at : {"action"}, arg : CodecInputs, config : {<< >>}, out : {<< >>}]
  \cup [at : {"configuration"}, arg : {<< >>}, config : CodecConfigurations, out : {<< >>}]

FunctionsInit ==
  /\ InitProgram
  /\ calc \in CalcInputs

\* sanitizeActionName applied to a name.
Normalize ==
  /\ calc.at = "name"
  /\ calc' = [calc EXCEPT !.at = "normalized", !.out = sanitizeActionName(calc.arg)]
  /\ UNCHANGED <<configs, routes, istio, pc, req, loc, resp, wire, obs, created,
                 removed, nfaults, nreq>>

\* The Configuration updateActionFunc builds for an Action.
Encode ==
  /\ calc.at = "action"
  /\ calc' = [calc EXCEPT
                !.at = "encoded",
                !.config = newConfiguration(calc.arg.name,
                                            sanitizeActionName(calc.arg.name),
                                            namespaceOrDefault(calc.arg.namespace),
                                            calc.arg.action)]
  /\ UNCHANGED <<configs, routes, istio, pc, req, loc, resp, wire, obs, created,
                 removed, nfaults, nreq>>

\* configToAction applied to a Configuration: one just built, or one found.
Decode ==
  /\ calc.at \in {"encoded", "configuration"}
  /\ calc' = [calc EXCEPT
                !.at = IF calc.at = "encoded" THEN "roundtrip" ELSE "decoded",
                !.out = configToAction(calc.config)]
  /\ UNCHANGED <<configs, routes, istio, pc, req, loc, resp, wire, obs, created,
                 removed, nfaults, nreq>>

FunctionsNext == Normalize \/ Encode \/ Decode

FunctionsSpec == FunctionsInit /\ [][FunctionsNext]_vars

\* The handlers that change the platform or talk to the action host, working
\* side by side, on a platform whose calls fail only with AlreadyExists or
\* NotFound.
ConcNext ==
  /\ \E p \in Procs :
       \/ ConcStart(p)
       \/ deleteActionFunc(p)
       \/ updateActionFunc(p)
       \/ invokeActionFunc(p)
       \/ Return(p)
  /\ nfaults' = nfaults

ConcSpec == Init /\ [][ConcNext]_vars

\* ================================================================= claims
\* No platform call of the request p serves failed for an outside reason.
NoFault(p) == \A i \in DOMAIN obs[p].calls : obs[p].calls[i].err # ErrInternal

Finished(p) == pc[p] \in {"done", "panic"}

\* C1. Create-then-Get: once a Create of an action has answered 200, a Get
\* whose name normalises to the same string, in the same resolved namespace,
\* answers 200 with the very Action the Create answered with (as long as no
\* Delete of the action came in between and the Get's platform call works).
CreateThenGet ==
  \A p \in Procs :
    (/\ pc[p] = "done"
     /\ req[p].op = "get"
     /\ ActionKey(req[p]) \in DOMAIN created
     /\ NoFault(p))
    => resp[p] = Response(StatusOK, created[ActionKey(req[p])].action)

\* A Get under another spelling than the one the action was created with.
CreateThenGetWitness ==
  \E p \in Procs :
    /\ pc[p] = "done"
    /\ req[p].op = "get"
    /\ ActionKey(req[p]) \in DOMAIN created
    /\ NoFault(p)
    /\ created[ActionKey(req[p])].action.name # req[p].name
    /\ created[ActionKey(req[p])].action.name = <<"A", " ", "b">>
    /\ req[p].namespace = "default"
    /\ resp[p].status = StatusOK

\* C2. Invoke resolves Route and Configuration by the normalised name: with
\* an action created and no platform failure, an Invoke under any spelling of
\* its name does not answer NotFound.
InvokeByNormalizedName ==
  \A p \in Procs :
    (/\ Finished(p)
     /\ req[p].op = "invoke"
     /\ ActionKey(req[p]) \in DOMAIN created
     /\ nfaults = 0)
    => resp[p].status # StatusNotFound

\* C3 as claimed. Delete-then-Get: after a Delete of an action whose
\* Configuration existed, and no Create since, a Get of the action answers
\* NotFound.
DeleteThenGetAsClaimed ==
  \A p \in Procs :
    (/\ pc[p] = "done"
     /\ req[p].op = "get"
     /\ ActionKey(req[p]) \in DOMAIN removed)
    => resp[p].status = StatusNotFound

\* C3 as amended. After a Delete of an existing action that answered 200 or
\* NotFound, and no Create since, a Get of the action answers NotFound when
\* its platform call works (and InternalError when it does not).
DeleteThenGet ==
  \A p \in Procs :
    (/\ pc[p] = "done"
     /\ req[p].op = "get"
     /\ ActionKey(req[p]) \in DOMAIN removed
     /\ removed[ActionKey(req[p])] \in {StatusOK, StatusNotFound})
    => resp[p].status = IF NoFault(p) THEN StatusNotFound ELSE StatusInternal

DeleteThenGetWitness ==
  \E p \in Procs :
    /\ pc[p] = "done"
    /\ req[p].op = "get"
    /\ ActionKey(req[p]) \in DOMAIN removed
    /\ removed[ActionKey(req[p])] = StatusOK
    /\ resp[p].status = StatusNotFound

\* C4. A Create answers 200 only if both its Configurations.Create and its
\* Routes.Create succeeded.
CreateAnswersOKOnlyIfBothCreated ==
  \A p \in Procs :
    (/\ pc[p] = "done"
     /\ req[p].op = "update"
     /\ resp[p].status = StatusOK)
    => \A i \in DOMAIN obs[p].calls :
         obs[p].calls[i].call \in {"Configurations.Create", "Routes.Create"}
           => obs[p].calls[i].err = ErrNil

\* C5. Pair invariant: as long as no platform call has failed for an outside
\* reason, between two requests served one after the other the Configuration
\* of a name exists exactly if its Route does.
PairInvariant ==
  (nfaults = 0 /\ \A p \in Procs : pc[p] \in {"idle", "done", "panic"})
    => DOMAIN configs = DOMAIN routes

\* Two actions live, a Delete and a refused Create behind them.
PairInvariantWitness ==
  /\ nfaults = 0
  /\ \A p \in Procs : pc[p] = "idle"
  /\ Cardinality(DOMAIN configs) = 2
  /\ DOMAIN routes = DOMAIN configs
  /\ \E k \in DOMAIN created : created[k].refused

\* C6. Create-only: a Create of an action whose Configuration exists answers
\* InternalError and leaves every Configuration and Route as it was, and a
\* later Get still answers with the Action stored first.
CreateOnly ==
  \A p \in Procs :
    /\ (/\ pc[p] = "done"
        /\ req[p].op = "update"
        /\ ActionKey(req[p]) \in DOMAIN obs[p].pre.configs)
       => /\ resp[p].status = StatusInternal
          /\ resp[p].payload.kind = "error"
          /\ configs = obs[p].pre.configs
          /\ routes = obs[p].pre.routes
    /\ (/\ pc[p] = "done"
        /\ req[p].op = "get"
        /\ ActionKey(req[p]) \in DOMAIN created
        /\ created[ActionKey(req[p])].refused
        /\ NoFault(p))
       => resp[p] = Response(StatusOK, created[ActionKey(req[p])].action)

\* A Create under another spelling of an existing action's name was refused.
CreateOnlyWitness ==
  \E p \in Procs :
    /\ pc[p] = "done"
    /\ req[p].op = "update"
    /\ ActionKey(req[p]) \in DOMAIN obs[p].pre.configs
    /\ obs[p].pre.configs[ActionKey(req[p])].annotations["kwsk_action_name"] # req[p].name
    /\ resp[p].status = StatusInternal
    /\ NoFault(p)

\* The run reply that yields an Activation: status 200 and a JSON body.
GoodRun(reply) ==
  ~reply.err /\ reply.status = StatusOK /\ ~jsonUnmarshal(reply.body).err

\* C7. Invoke init-benign: an invocation whose init was answered 403 or 200
\* goes on to run, and when run is answered 200 with a JSON body it answers
\* 200 with an Activation, success true, result the parsed body.
InitBenign ==
  \A p \in Procs :
    LET w == wire[p] IN
    (Len(w) >= 1 /\ ~w[1].reply.err /\ w[1].reply.status \in {StatusForbidden, StatusOK})
    => /\ Len(w) = 1 => pc[p] = "runAction"
       /\ (Len(w) = 2 /\ GoodRun(w[2].reply))
          => /\ pc[p] = "done"
             /\ resp[p].status = StatusOK
             /\ resp[p].payload.kind = "activation"
             /\ resp[p].payload.response =
                  [result |-> jsonUnmarshal(w[2].reply.body).value, success |-> TRUE]

InitBenignWitness ==
  \E p \in Procs :
    /\ Len(wire[p]) = 2
    /\ wire[p][1].reply.status = StatusForbidden
    /\ wire[p][2].reply = HostReply(200, <<"1">>)
    /\ resp[p].status = StatusOK
    /\ resp[p].payload.response.success

\* C8. Invoke run failure: an Activation is answered only after a run reply
\* of status 200 with a JSON body; after any other run reply, or none, the
\* invocation answers InternalError with an error message.
RunFailure ==
  \A p \in Procs :
    LET w == wire[p] IN
    /\ resp[p].payload.kind = "activation"
       => Len(w) = 2 /\ w[2].path = "run" /\ GoodRun(w[2].reply)
    /\ (Len(w) = 2 /\ ~GoodRun(w[2].reply))
       => /\ pc[p] = "done"
          /\ resp[p].status = StatusInternal
          /\ resp[p].payload.kind = "error"

RunFailureWitness ==
  \E p \in Procs :
    /\ Len(wire[p]) = 2
    /\ wire[p][2].reply = HostReply(200, <<"x">>)
    /\ resp[p].status = StatusInternal

\* C9. Missing gateway: with the gateway address empty no request is sent to
\* the action host and no Activation is answered.
MissingGateway ==
  istio = ""
    => \A p \in Procs :
         /\ wire[p] = << >>
         /\ pc[p] \notin {"initAction", "runAction"}
         /\ resp[p].payload.kind # "activation"

\* An invocation that found its Route and Configuration, the gateway missing.
MissingGatewayWitness ==
  /\ istio = ""
  /\ \E p \in Procs :
       /\ req[p].op = "invoke"
       /\ Len(obs[p].calls) = 2
       /\ \A i \in 1..2 : obs[p].calls[i].err = ErrNil
       /\ Finished(p)

\* C10. Invoke error taxonomy: an Invoke ends with an Activation (200), a
\* NotFound (404) or an InternalError (500) with a message; with the gateway
\* missing and Route and Configuration found, with an InternalError.
InvokeTaxonomy ==
  \A p \in Procs :
    (Finished(p) /\ req[p].op = "invoke")
    => /\ <<resp[p].status, resp[p].payload.kind>> \in
            { <<StatusOK, "activation">>, <<StatusNotFound, "error">>,
              <<StatusInternal, "error">> }
       /\ (/\ istio = ""
           /\ Len(obs[p].calls) = 2
           /\ \A i \in 1..2 : obs[p].calls[i].err = ErrNil)
          => resp[p].status = StatusInternal

\* ------------------------------------------------- handlers side by side
\* The two handlers serve the only two requests the server has had.
OnlyTwo(p, q) ==
  /\ p # q
  /\ nreq = 2
  /\ pc[p] = "done"
  /\ pc[q] = "done"
  /\ nfaults = 0

\* The Action a Create stores and answers with, from its request alone.
OwnAction(r) ==
  configToAction(newConfiguration(r.name, sanitizeActionName(r.name),
                                  namespaceOrDefault(r.namespace), r.action))

\* C11. Two Creates of the same action side by side, neither resource there
\* before, nothing else going on and no platform failure: exactly one
\* answers 200 with its own Action, the other answers InternalError, and in
\* the end there is one Configuration and one Route, the Configuration being
\* the winner's.
ConcurrentCreates ==
  \A p, q \in Procs :
    (/\ OnlyTwo(p, q)
     /\ req[p].op = "update"
     /\ req[q].op = "update"
     /\ ActionKey(req[p]) = ActionKey(req[q])
     /\ ActionKey(req[p]) \notin DOMAIN obs[p].pre.configs \cup DOMAIN obs[p].pre.routes
     /\ ActionKey(req[q]) \notin DOMAIN obs[q].pre.configs \cup DOMAIN obs[q].pre.routes)
    => LET key == ActionKey(req[p])
           winners == {w \in {p, q} : resp[w].status = StatusOK}
       IN /\ Cardinality(winners) = 1
          /\ DOMAIN configs = {key}
          /\ DOMAIN routes = {key}
          /\ \A w \in winners :
               /\ resp[w].payload = OwnAction(req[w])
               /\ configToAction(configs[key]) = OwnAction(req[w])
          /\ \A l \in {p, q} \ winners : resp[l].status = StatusInternal

\* Two Creates under different spellings and with different bodies; the one
\* under the normalised spelling wins.
ConcurrentCreatesWitness ==
  /\ OnlyTwo("h1", "h2")
  /\ req["h1"].op = "update"
  /\ req["h2"].op = "update"
  /\ req["h1"].name = <<"A", " ", "b">>
  /\ req["h2"].name = <<"a", "-", "b">>
  /\ req["h1"].action.version = "0.0.1"
  /\ req["h2"].action.version = "0.0.3"
  /\ obs["h1"].pre.configs = EmptyStore
  /\ obs["h2"].pre.configs = EmptyStore
  /\ resp["h1"].status = StatusInternal
  /\ resp["h2"].status = StatusOK
  /\ resp["h2"].payload.exec.image = "img"

\* Two Deletes of the same action side by side, the action being there with
\* both its resources when the first of them came, and the only other request
\* the server has had being over by then.
TwoDeletes(p, q) ==
  /\ p # q
  /\ nreq = 3
  /\ pc[p] = "done"
  /\ pc[q] = "done"
  /\ nfaults = 0
  /\ req[p].op = "delete"
  /\ req[q].op = "delete"
  /\ ActionKey(req[p]) = ActionKey(req[q])
  /\ ActionKey(req[p]) \in DOMAIN obs[p].pre.configs \cap DOMAIN obs[p].pre.routes

\* C12 as stated: each Delete answers 200 or NotFound, at least one answers
\* 200, both answering 200 is among the possible outcomes, and neither
\* resource is left.
ConcurrentDeletesAsClaimed ==
  \A p, q \in Procs :
    TwoDeletes(p, q)
    => LET key == ActionKey(req[p]) IN
       /\ resp[p].status \in {StatusOK, StatusNotFound}
       /\ resp[q].status \in {StatusOK, StatusNotFound}
       /\ StatusOK \in {resp[p].status, resp[q].status}
       /\ <<StatusOK, StatusOK>> \in
            DeleteOutcomes(obs[p].pre.configs, obs[p].pre.routes, key,
                           NewDeleteRun, NewDeleteRun)
       /\ key \notin DOMAIN configs \cup DOMAIN routes

\* C12, amended. Two Deletes of the same existing action side by side: one
\* answers 200 and the other NotFound (the Configuration can be deleted only
\* once, and the Delete that misses it returns at once), never InternalError
\* and never both 200; in the end neither resource is left.
ConcurrentDeletes ==
  \A p, q \in Procs :
    TwoDeletes(p, q)
    => LET key == ActionKey(req[p])
           outcomes == DeleteOutcomes(obs[p].pre.configs, obs[p].pre.routes, key,
                                      NewDeleteRun, NewDeleteRun)
       IN /\ {resp[p].status, resp[q].status} = {StatusOK, StatusNotFound}
          /\ <<resp[p].status, resp[q].status>> \in outcomes
          /\ <<StatusOK, StatusOK>> \notin outcomes
          /\ key \notin DOMAIN configs \cup DOMAIN routes

\* One Delete misses the Configuration, the other, under another spelling of
\* the name, having deleted it; that one goes on to delete the Route.
ConcurrentDeletesWitness ==
  /\ TwoDeletes("h1", "h2")
  /\ ActionKey(req["h2"]) \in DOMAIN obs["h2"].pre.configs
  /\ req["h1"].name # req["h2"].name
  /\ resp["h1"].status = StatusNotFound
  /\ resp["h2"].status = StatusOK

\* The exchanges of handler p with the action host, by path.
Inits(p) == {i \in DOMAIN wire[p] : wire[p][i].path = "init"}
Runs(p) == {i \in DOMAIN wire[p] : wire[p][i].path = "run"}

\* The action host answered as C13 supposes: 200 to one init and 403 to the
\* others, 200 with a JSON body to every run.
HostAsSupposed(p, q) ==
  /\ \A x \in {p, q} : \A i \in DOMAIN wire[x] :
       LET reply == wire[x][i].reply IN
       /\ ~reply.err
       /\ i \in Inits(x) => reply.status \in {StatusOK, StatusForbidden}
       /\ i \in Runs(x) => reply.status = StatusOK /\ ~jsonUnmarshal(reply.body).err
  /\ Cardinality({x \in {p, q} : \E i \in Inits(x) : wire[x][i].reply.status = StatusOK}) <= 1

\* Two Invokes of the same action side by side, the action being there with
\* both its resources when each of them came, the gateway address given.
TwoInvokes(p, q) ==
  /\ p # q
  /\ nreq = 3
  /\ nfaults = 0
  /\ ~istioMissing(istio)
  /\ Finished(p)
  /\ Finished(q)
  /\ req[p].op = "invoke"
  /\ req[q].op = "invoke"
  /\ ActionKey(req[p]) = ActionKey(req[q])
  /\ \A x \in {p, q} :
       ActionKey(req[x]) \in DOMAIN obs[x].pre.configs \cap DOMAIN obs[x].pre.routes

\* C13. Invokes of the same existing action side by side, the action host
\* answering 200 to the first init, 403 to the later ones and 200 with JSON
\* to every run: every invocation answers 200 with an Activation, and no run
\* is sent before an init was answered.
ConcurrentInvokes ==
  \A p, q \in Procs :
    (TwoInvokes(p, q) /\ HostAsSupposed(p, q))
    => \A x \in {p, q} :
         /\ resp[x].status = StatusOK
         /\ resp[x].payload.kind = "activation"
         /\ \A i \in Runs(x) : \E j \in Inits(x) : j < i

\* C16. A Create and a Delete of the same action side by side, platform calls
\* failing only with AlreadyExists or NotFound: once both are over, the
\* Configuration exists if and only if the Route does.
ConcurrentPairInvariant ==
  \A p, q \in Procs :
    (/\ OnlyTwo(p, q)
     /\ req[p].op = "update"
     /\ req[q].op = "delete"
     /\ ActionKey(req[p]) = ActionKey(req[q]))
    => (ActionKey(req[p]) \in DOMAIN configs <=> ActionKey(req[p]) \in DOMAIN routes)

\* ------------------------------------------------- one request at a time
\* The platform calls the handler p has made, and the first that failed.
Calls(p) == obs[p].calls

Failed(p) == {i \in DOMAIN Calls(p) : Calls(p)[i].err # ErrNil}

\* The status an error of the platform is to be answered with.
StatusFor(err) == IF err = "NotFound" THEN 404 ELSE 500

\* C17. Delete deletes the Configuration first and tries the Route only if
\* that succeeded; it answers 200 exactly when both deletions succeeded,
\* NotFound when the first failing one failed with not-found, InternalError
\* when it failed otherwise; a failed Configuration deletion leaves the Route
\* as it was, and a failed Route deletion leaves the Configuration deleted.
DeleteOrdering ==
  \A p \in Procs :
    (pc[p] = "done" /\ req[p].op = "delete")
    => LET key == ActionKey(req[p])
           pre == obs[p].pre
       IN /\ Len(Calls(p)) \in {1, 2}
          /\ Calls(p)[1].call = "Configurations.Delete"
          /\ Len(Calls(p)) = 2 <=> Calls(p)[1].err = ErrNil
          /\ Len(Calls(p)) = 2 => Calls(p)[2].call = "Routes.Delete"
          /\ resp[p].status = 200 <=> (Len(Calls(p)) = 2 /\ Failed(p) = {})
          /\ \A i \in Failed(p) :
               /\ i = Len(Calls(p))
               /\ resp[p].status = StatusFor(Calls(p)[i].err)
          /\ 1 \in Failed(p) => configs = pre.configs /\ routes = pre.routes
          /\ 2 \in Failed(p) =>
               /\ key \in DOMAIN pre.configs
               /\ configs = Remove(pre.configs, key)
               /\ routes = pre.routes
          /\ Failed(p) = {} =>
               /\ configs = Remove(pre.configs, key)
               /\ routes = Remove(pre.routes, key)

\* The Configuration was deleted, the deletion of the Route failed for an
\* outside reason: InternalError, the Route is there, the Configuration not.
DeleteOrderingWitness ==
  \E p \in Procs :
    /\ pc[p] = "done"
    /\ req[p].op = "delete"
    /\ Len(Calls(p)) = 2
    /\ Calls(p)[2].err = ErrInternal
    /\ resp[p].status = StatusInternal
    /\ ActionKey(req[p]) \in DOMAIN routes
    /\ ActionKey(req[p]) \notin DOMAIN configs
    /\ ActionKey(req[p]) \in DOMAIN obs[p].pre.configs

\* C18. When the fetch of the Route or of the Configuration fails, the
\* invocation ends at once, with NotFound for not-found and InternalError
\* otherwise, and nothing is sent to the action host.
InvokeShortCircuit ==
  \A p \in Procs :
    (req[p].op = "invoke" /\ Failed(p) # {})
    => /\ pc[p] = "done"
       /\ Failed(p) = {Len(Calls(p))}
       /\ resp[p].status = StatusFor(Calls(p)[Len(Calls(p))].err)
       /\ resp[p].payload.kind = "error"
       /\ wire[p] = << >>

\* The Route was fetched and the Configuration is not there.
InvokeShortCircuitWitness ==
  \E p \in Procs :
    /\ pc[p] = "done"
    /\ req[p].op = "invoke"
    /\ Len(Calls(p)) = 2
    /\ Calls(p)[1] = [call |-> "Routes.Get", err |-> ErrNil]
    /\ Calls(p)[2] = [call |-> "Configurations.Get", err |-> ErrNotFound]
    /\ resp[p].status = StatusNotFound
    /\ wire[p] = << >>

\* The invocation p serves fetched the Route and the Configuration.
PassedResolve(p) ==
  /\ req[p].op = "invoke"
  /\ Len(Calls(p)) = 2
  /\ Failed(p) = {}

\* The init of an invocation was answered with 200 or 403.
InitAnswered(p) ==
  /\ ~wire[p][1].reply.err
  /\ wire[p][1].reply.status \in {200, 403}

\* C19. An invocation that passes resolve sends exactly one init, with the
\* code annotation of the Configuration it fetched; it sends a run if and
\* only if the init was answered with 200 or 403, after the init and at most
\* once; any other answer to the init, or a transport failure, ends it with
\* InternalError; nothing is sent twice.
InitThenRun ==
  \A p \in Procs :
    (Finished(p) /\ PassedResolve(p))
    => LET fetched == configs[<<namespaceOrDefault(req[p].namespace), req[p].name>>]
       IN /\ Inits(p) = {1}
          /\ wire[p][1].body.code = MapGet(fetched.annotations, "kwsk_action_code", "")
          /\ Runs(p) \subseteq {2}
          /\ Len(wire[p]) <= 2
          /\ Runs(p) # {} <=> InitAnswered(p)
          /\ ~InitAnswered(p) => resp[p].status = 500

\* The namespace a request is resolved to.
Resolved(namespace) == IF namespace = "_" THEN "default" ELSE namespace

\* C20. Get, List and Invoke leave every Configuration and every Route as
\* they were, whatever they answer; List answers with exactly one Action per
\* Configuration of the resolved namespace, "_" resolving to "default" and
\* every other namespace to itself.
ReadOnly ==
  \A p \in Procs :
    /\ req[p].op \in {"get", "list", "invoke"}
       => /\ configs = obs[p].pre.configs
          /\ routes = obs[p].pre.routes
    /\ (pc[p] = "done" /\ req[p].op = "list" /\ resp[p].status = 200)
       => LET here == {k \in DOMAIN configs : k[1] = Resolved(req[p].namespace)}
              items == resp[p].payload.items
          IN /\ Len(items) = Cardinality(here)
             /\ \A k \in here : \E i \in DOMAIN items :
                  /\ items[i].name = configs[k].annotations["kwsk_action_name"]
                  /\ items[i].namespace = k[1]
                  /\ items[i] = configToAction(configs[k])

\* A List of "_" answers with the two Actions of namespace "default".
ReadOnlyWitness ==
  \E p \in Procs :
    /\ pc[p] = "done"
    /\ req[p].op = "list"
    /\ req[p].namespace = "_"
    /\ resp[p].status = 200
    /\ Len(resp[p].payload.items) = 2
    /\ resp[p].payload.items[1].name # resp[p].payload.items[2].name
    /\ \A i \in 1..2 : resp[p].payload.items[i].namespace = "default"

\* ----------------------------------------------------- name and codec
UpperCase == {"A", "B", "C"}

\* c is what lower-casing letters and replacing spaces may make of d.
NormalizedChar(d, c) ==
  \/ d = "A" /\ c = "a"
  \/ d = "B" /\ c = "b"
  \/ d = "C" /\ c = "c"
  \/ d = " " /\ c = "-"
  \/ d \notin UpperCase \cup {" "} /\ c = d

\* C14. The normalised name has no upper-case letter and no space, differs
\* from the name only by lower-cased letters and hyphens for spaces, and
\* normalising it again changes nothing.
NameNormalizer ==
  calc.at = "normalized"
  => /\ \A i \in DOMAIN calc.out : calc.out[i] \notin UpperCase \cup {" "}
     /\ Len(calc.out) = Len(calc.arg)
     /\ \A i \in DOMAIN calc.arg : NormalizedChar(calc.arg[i], calc.out[i])
     /\ sanitizeActionName(calc.out) = calc.out

\* A name with an upper-case letter, a space and a character left alone.
NameNormalizerWitness ==
  /\ calc.at = "normalized"
  /\ calc.arg = <<"A", " ", "1">>
  /\ calc.out = <<"a", "-", "1">>

\* The field of the decoded Action each annotation is read into.
DecodedField(action, k) ==
  CASE k = "kwsk_action_name"    -> action.name
    [] k = "kwsk_action_version" -> action.version
    [] k = "kwsk_action_kind"    -> action.exec.kind
    [] k = "kwsk_action_code"    -> action.exec.code

\* The empty string: of characters for the name, plain for the others.
EmptyString(k) == IF k = "kwsk_action_name" THEN << >> ELSE ""

\* C15. Codec round trip: decoding the Configuration built for an Action
\* whose exec.image is given yields the same name, version, exec.kind,
\* exec.code and exec.image; and decoding a Configuration that lacks some of
\* the four annotations yields an Action with empty strings in their fields.
CodecRoundTrip ==
  /\ (/\ calc.at = "roundtrip"
      /\ calc.arg.action.exec # << >>
      /\ calc.arg.action.exec[1].image # "")
     => /\ calc.out.kind = "action"
        /\ calc.out.name = calc.arg.name
        /\ calc.out.version = calc.arg.action.version
        /\ calc.out.exec.kind = calc.arg.action.exec[1].kind
        /\ calc.out.exec.code = calc.arg.action.exec[1].code
        /\ calc.out.exec.image = calc.arg.action.exec[1].image
  /\ calc.at = "decoded"
     => /\ calc.out.kind = "action"
        /\ \A k \in AnnotationKeys \ DOMAIN calc.config.annotations :
             DecodedField(calc.out, k) = EmptyString(k)

\* The round trip of an Action named with a space and an upper-case letter,
\* with an image, a kind and some code.
CodecRoundTripWitness ==
  /\ calc.at = "roundtrip"
  /\ calc.arg.name = <<"A", " ", "b">>
  /\ calc.arg.action.exec # << >>
  /\ calc.arg.action.exec[1] = [kind |-> "nodejs", code |-> "f1", image |-> "img"]
  /\ calc.config.name = <<"a", "-", "b">>
  /\ calc.out.exec.image = "img"
====
